---- MODULE Spec2Model ----
(***************************************************************************)
(* Model of psrsigsim/ism/ism.py: the ISM class and the signal object it   *)
(* mutates.  Every method call is one atomic step (the code is single-     *)
(* threaded and synchronous).                                              *)
(*                                                                         *)
(* Numbers.  Frequencies are taken on the lattice f = 2^k (in units of the *)
(* lowest channel), so a frequency is stored as its exponent k, and a      *)
(* quantity q * 2^r is stored as [m |-> q, e |-> r] with r an exact        *)
(* rational <<num, den>>.  On that lattice the power laws of the code are  *)
(* computed exactly.  A row of signal._data is stored as the sequence of   *)
(* transformations that have been written into it by shift_t / the chirp   *)
(* filter, each with the delay it was given.                               *)
(***************************************************************************)
EXTENDS Integers, Sequences, FiniteSets, TLC

VARIABLES sigtype, Nchan, data, dm, attrs, last, pre, ncalls, rt

vars == <<sigtype, Nchan, data, dm, attrs, last, pre, ncalls, rt>>

sigvars == <<sigtype, Nchan, data, dm, attrs, last, pre, ncalls>>

\* ---------------------------------------------------------------- bounds
MaxNchan == 21
MaxCalls == 3
MaxDM == 2
MaxFD == 2
MaxTau == 2
MaxLogFreq == 2
MaxBetaNum == 21

\* ------------------------------------------------- exact rational numbers
Abs(n) == IF n < 0 THEN -n ELSE n

RECURSIVE GCD(_, _)
GCD(a, b) == IF b = 0 THEN a ELSE GCD(b, a % b)

Norm(r) ==
    LET g == GCD(Abs(r[1]), Abs(r[2]))
        s == IF r[2] < 0 THEN -1 ELSE 1
    IN  <<(s * r[1]) \div g, (s * r[2]) \div g>>

Rat(n) == <<n, 1>>
RatAdd(a, b) == Norm(<<a[1] * b[2] + b[1] * a[2], a[2] * b[2]>>)
RatSub(a, b) == Norm(<<a[1] * b[2] - b[1] * a[2], a[2] * b[2]>>)
RatMul(a, b) == Norm(<<a[1] * b[1], a[2] * b[2]>>)
RatDiv(a, b) == Norm(<<a[1] * b[2], a[2] * b[1]>>)
RatLt(a, b) == a[1] * b[2] < b[1] * a[2]
RatIsZero(a) == a[1] = 0

\* a quantity m * 2^e
Quant(m, e) == [m |-> m, e |-> e]

\* the value carried by a call that raised
NoVal == Quant(0, Rat(0))

\* ------------------------------------------------------ scaling law
\* beta is n/3 for n in 1..MaxBetaNum: the grid holds 2, 11/3, 4 and 6
Betas == {Norm(<<n, 3>>) : n \in 1..MaxBetaNum}

\* scale_tau_d with the ratio's exponent applied to nu_i only
ScaleTauDPrec(tau_d, nu_i, nu_f, beta) ==
    IF RatLt(beta, Rat(4)) /\ RatIsZero(RatSub(beta, Rat(2)))
    THEN [err |-> "ZeroDivisionError", val |-> NoVal]
    ELSE IF RatLt(Rat(4), beta) /\ RatIsZero(RatSub(Rat(6), beta))
    THEN [err |-> "ZeroDivisionError", val |-> NoVal]
    ELSE IF ~RatLt(beta, Rat(4)) /\ ~RatLt(Rat(4), beta)
    THEN [err |-> "UnboundLocalError", val |-> NoVal]
    ELSE LET exp == IF RatLt(beta, Rat(4))
                    THEN RatDiv(RatMul(Rat(-2), beta), RatSub(beta, Rat(2)))
                    ELSE RatDiv(Rat(-8), RatSub(Rat(6), beta))
         IN  [err |-> "none",
              val |-> Quant(tau_d.m,
                            RatAdd(tau_d.e,
                                   RatSub(Rat(nu_f), RatMul(Rat(nu_i), exp))))]

\* scale_tau_d(tau_d, nu_i, nu_f, beta): tau_d*(nu_f/nu_i)**exp.
\* nu_i, nu_f are log2 frequencies, so (nu_f/nu_i)**exp = 2^((nu_f-nu_i)*exp).
\* beta < 4 and beta > 4 assign exp; beta = 4 leaves it unbound; the float
\* divisions raise when beta-2 or 6-beta is zero.
ScaleTauD(tau_d, nu_i, nu_f, beta) ==
    IF RatLt(beta, Rat(4)) /\ RatIsZero(RatSub(beta, Rat(2)))
    THEN [err |-> "ZeroDivisionError", val |-> NoVal]
    ELSE IF RatLt(Rat(4), beta) /\ RatIsZero(RatSub(Rat(6), beta))
    THEN [err |-> "ZeroDivisionError", val |-> NoVal]
    ELSE IF ~RatLt(beta, Rat(4)) /\ ~RatLt(Rat(4), beta)
    THEN [err |-> "UnboundLocalError", val |-> NoVal]
    ELSE LET exp == IF RatLt(beta, Rat(4))
                    THEN RatDiv(RatMul(Rat(-2), beta), RatSub(beta, Rat(2)))
                    ELSE RatDiv(Rat(-8), RatSub(Rat(6), beta))
         IN  [err |-> "none",
              val |-> Quant(tau_d.m,
                            RatAdd(tau_d.e,
                                   RatMul(Rat(nu_f - nu_i), exp)))]

\* ------------------------------------------------------ the signal
SigTypes == {"FilterBankSignal", "BasebandSignal", "OtherSignal"}

Chans(N) == 0 .. (N - 1)

\* signal._dat_freq: channel ii sits at log2 frequency ii
DatFreq(N) == [ii \in Chans(N) |-> ii]

\* one application written into a row
Applied(kind, p, e) == [kind |-> kind, p |-> p, e |-> e]

\* shift_t(row, delay, dt): the row after one more shift by delay
ShiftT(row, delay) == Append(row, delay)

\* attributes of the ISM object after __init__ (which only passes)
ISMAttrs == {}

\* ---------------------------------------------- per-channel shift loop
\* (ii+1) % int(signal.Nchan//20) == 0, evaluated after row ii is written
ProgressCheck(ii, N) ==
    IF N \div 20 = 0 THEN "ZeroDivisionError"
    ELSE IF (ii + 1) % (N \div 20) = 0 THEN "report"
    ELSE "skip"

RECURSIVE ShiftLoop(_, _, _, _, _)
ShiftLoop(d, delays, ii, N, reports) ==
    IF ii = N THEN [data |-> d, err |-> "none", reports |-> reports]
    ELSE LET d1 == [d EXCEPT ![ii] = ShiftT(d[ii], delays[ii])]
             pc == ProgressCheck(ii, N)
         IN  IF pc = "ZeroDivisionError"
             THEN [data |-> d1, err |-> pc, reports |-> reports]
             ELSE ShiftLoop(d1, delays, ii + 1, N,
                            IF pc = "report" THEN reports + 1 ELSE reports)

\* ------------------------------------------------------ dispersion
\* time_delays = DM_K * dm * freq_array^-2, in units of DM_K
TimeDelays(dmv, N) ==
    [ii \in Chans(N) |->
        Applied("DM", <<dmv>>, RatMul(Rat(-2), Rat(DatFreq(N)[ii])))]

DisperseFilterbank(d, dmv, N) == ShiftLoop(d, TimeDelays(dmv, N), 0, N, 0)

\* the row after fourier*H has been inverted back into it
Chirp(dmv, x) == Applied("H", <<dmv>>, Rat(x))

RECURSIVE BasebandLoop(_, _, _, _)
BasebandLoop(d, dmv, x, N) ==
    IF x = N THEN [data |-> d, err |-> "none", reports |-> 0]
    ELSE IF "MD" \notin ISMAttrs
         THEN [data |-> d, err |-> "AttributeError", reports |-> 0]
         ELSE BasebandLoop([d EXCEPT ![x] = Append(d[x], Chirp(dmv, x))],
                           dmv, x + 1, N)

DisperseBaseband(d, dmv, N) == BasebandLoop(d, dmv, 0, N)

\* hasattr(signal,'_dispersed') looking up a name the signal never carries
AlreadyDispersedTypo(a) == "dispersed" \in a

\* hasattr(signal,'_dispersed')
AlreadyDispersed(a) == "_dispersed" \in a

Snapshot == [data |-> data, dm |-> dm, attrs |-> attrs]

Record(op, err, reports, arg, convolve) ==
    [op |-> op, err |-> err, reports |-> reports, arg |-> arg,
     convolve |-> convolve]

CanCall == ncalls["disperse"] + ncalls["FD_shift"] + ncalls["scatter_broaden"]
              < MaxCalls

Count(op) == ncalls' = [ncalls EXCEPT ![op] = @ + 1]

Disperse(dmv) ==
    /\ CanCall
    /\ pre' = Snapshot
    /\ Count("disperse")
    /\ dm' = dmv
    /\ UNCHANGED <<sigtype, Nchan, rt>>
    /\ IF AlreadyDispersed(attrs)
       THEN /\ attrs' = attrs \cup {"_dm"}
            /\ data' = data
            /\ last' = Record("disperse", "ValueError", 0, <<dmv>>, FALSE)
       ELSE LET r == IF sigtype = "FilterBankSignal"
                     THEN DisperseFilterbank(data, dmv, Nchan)
                     ELSE IF sigtype = "BasebandSignal"
                     THEN DisperseBaseband(data, dmv, Nchan)
                     ELSE [data |-> data, err |-> "none", reports |-> 0]
            IN  /\ data' = r.data
                /\ attrs' = IF r.err = "none"
                            THEN attrs \cup {"_dm", "_dispersed"}
                            ELSE attrs \cup {"_dm"}
                /\ last' = Record("disperse", r.err, r.reports, <<dmv>>, FALSE)

\* ------------------------------------------------------ FD shift
\* time_delays[ii] = sum_k -FD_params[k] * log(freq[ii]/ref_freq)^(k+1):
\* kept as the FD coefficients together with the channel's log frequency
FDDelays(FD_params, N) ==
    [ii \in Chans(N) |-> Applied("FD", FD_params, Rat(DatFreq(N)[ii]))]

FDParamLists == {[k \in 1..n |-> k] : n \in 1..MaxFD}

FDShift(FD_params) ==
    /\ CanCall
    /\ pre' = Snapshot
    /\ Count("FD_shift")
    /\ UNCHANGED <<sigtype, Nchan, dm, rt>>
    /\ LET r == ShiftLoop(data, FDDelays(FD_params, Nchan), 0, Nchan, 0)
       IN  /\ data' = r.data
           /\ attrs' = IF r.err = "none" THEN attrs \cup {"_FDshifted"}
                       ELSE attrs
           /\ last' = Record("FD_shift", r.err, r.reports, FD_params, FALSE)

\* ------------------------------------------------------ scatter broadening
\* def scale_tau_d(tau_d, nu_i, nu_f, beta=KOLMOGOROV_BETA), no self
ScaleTauDParams == <<"tau_d", "nu_i", "nu_f", "beta">>

\* Python's argument binding: positional arguments fill the parameters from
\* the left; too many of them, or a keyword naming a parameter a positional
\* argument already filled, is a TypeError.
Bind(params, npos, kw) ==
    IF npos > Len(params) THEN "TypeError"
    ELSE IF \E j \in 1..npos : params[j] \in kw THEN "TypeError"
    ELSE "none"

\* self.scale_tau_d(tau_d, ref_freq, freq_array, beta=beta): the bound
\* method passes self first, so four positional arguments and keyword beta
ScaleCallBinding == Bind(ScaleTauDParams, 4, {"beta"})

RECURSIVE FirstErr(_, _, _)
FirstErr(res, ii, N) ==
    IF ii = N THEN "none"
    ELSE IF res[ii].err # "none" THEN res[ii].err
    ELSE FirstErr(res, ii + 1, N)

ScatterBroaden(tau_d, ref_freq, beta, convolve) ==
    /\ CanCall
    /\ pre' = Snapshot
    /\ Count("scatter_broaden")
    /\ UNCHANGED <<sigtype, Nchan, dm, attrs, rt>>
    /\ LET arg == <<tau_d, ref_freq, beta[1], beta[2]>>
           res == [ii \in Chans(Nchan) |->
                     ScaleTauD(Quant(tau_d, Rat(0)), ref_freq,
                               DatFreq(Nchan)[ii], beta)]
           serr == FirstErr(res, 0, Nchan)
           delays == [ii \in Chans(Nchan) |->
                        Applied("tau", <<res[ii].val.m>>, res[ii].val.e)]
       IN  IF ScaleCallBinding # "none"
           THEN /\ data' = data
                /\ last' = Record("scatter_broaden", ScaleCallBinding, 0,
                                  arg, convolve)
           ELSE IF serr # "none"
           THEN /\ data' = data
                /\ last' = Record("scatter_broaden", serr, 0, arg, convolve)
           ELSE IF ~convolve
           THEN LET r == ShiftLoop(data, delays, 0, Nchan, 0)
                IN  /\ data' = r.data
                    /\ last' = Record("scatter_broaden", r.err, r.reports,
                                      arg, convolve)
           ELSE /\ data' = data
                /\ last' = Record("scatter_broaden", "NotImplementedError",
                                  0, arg, convolve)

\* ------------------------------------------------------ specification
RtIdle == [stage |-> "idle", x |-> NoVal, f1 |-> 0, f2 |-> 0,
           beta |-> Rat(1), y |-> [err |-> "none", val |-> NoVal],
           z |-> [err |-> "none", val |-> NoVal]]

Init ==
    /\ sigtype \in SigTypes
    /\ Nchan \in 1..MaxNchan
    /\ data = [ii \in Chans(Nchan) |-> <<>>]
    /\ dm = 0
    /\ attrs = {}
    /\ last = Record("new", "none", 0, <<>>, FALSE)
    /\ pre = [data |-> data, dm |-> 0, attrs |-> {}]
    /\ ncalls = [op \in {"disperse", "FD_shift", "scatter_broaden"} |-> 0]
    /\ rt = RtIdle

Next ==
    \/ \E dmv \in 0..MaxDM : Disperse(dmv)
    \/ \E p \in FDParamLists : FDShift(p)
    \/ \E tau_d \in 1..MaxTau, ref_freq \in 0..1, convolve \in BOOLEAN :
          ScatterBroaden(tau_d, ref_freq, <<11, 3>>, convolve)

Spec == Init /\ [][Next]_vars

\* ---------------------------------------- scaling law called on its own
InitScale ==
    /\ sigtype = "FilterBankSignal"
    /\ Nchan = 1
    /\ data = [ii \in Chans(Nchan) |-> <<>>]
    /\ dm = 0
    /\ attrs = {}
    /\ last = Record("new", "none", 0, <<>>, FALSE)
    /\ pre = [data |-> data, dm |-> 0, attrs |-> {}]
    /\ ncalls = [op \in {"disperse", "FD_shift", "scatter_broaden"} |-> 0]
    /\ \E m \in 1..MaxTau, f1 \in 0..MaxLogFreq, f2 \in 0..MaxLogFreq,
          b \in Betas :
          rt = [RtIdle EXCEPT !.stage = "args", !.x = Quant(m, Rat(0)),
                              !.f1 = f1, !.f2 = f2, !.beta = b]

\* y = ISM.scale_tau_d(x, f1, f2, beta)
ScaleOut ==
    /\ rt.stage = "args"
    /\ rt' = [rt EXCEPT !.stage = "out",
                        !.y = ScaleTauD(rt.x, rt.f1, rt.f2, rt.beta)]
    /\ UNCHANGED sigvars

\* z = ISM.scale_tau_d(y, f2, f1, beta), when the first call returned
ScaleBack ==
    /\ rt.stage = "out"
    /\ rt.y.err = "none"
    /\ rt' = [rt EXCEPT !.stage = "back",
                        !.z = ScaleTauD(rt.y.val, rt.f2, rt.f1, rt.beta)]
    /\ UNCHANGED sigvars

NextScale == ScaleOut \/ ScaleBack

SpecScale == InitScale /\ [][NextScale]_vars

\* ------------------------------------------------------ properties
DMCount(row) == Cardinality({j \in 1..Len(row) : row[j].kind = "DM"})
FDCount(row) == Cardinality({j \in 1..Len(row) : row[j].kind = "FD"})

\* C1: a disperse call on a signal whose _dispersed attribute is already set
\* raises ValueError (the AlreadyProcessed error) and leaves every row of
\* data as it was before the call, whatever dm it is given.
C1_SecondDisperseRejected ==
    (last.op = "disperse" /\ "_dispersed" \in pre.attrs)
        => (last.err = "ValueError" /\ data = pre.data)

\* C1 witness: a filterbank signal whose rows were shifted by a completed
\* disperse, and a later disperse with another dm has just been rejected.
C1_Witness ==
    /\ last.op = "disperse"
    /\ "_dispersed" \in pre.attrs
    /\ sigtype = "FilterBankSignal"
    /\ last.err = "ValueError"
    /\ \A ii \in Chans(Nchan) : DMCount(data[ii]) = 1
    /\ last.arg # data[0][1].p

\* C2 (as claimed): _dm is set iff _dispersed is set, and once _dm holds a
\* value no later disperse call changes it.
C2_SetTogetherOnce ==
    /\ ("_dm" \in attrs) <=> ("_dispersed" \in attrs)
    /\ (last.op = "disperse" /\ "_dm" \in pre.attrs) => dm = pre.dm

\* C3 (as claimed): disperse on a filterbank signal that was not dispersed
\* completes without error for every Nchan >= 1, appends the delay of
\* channel ii to row ii exactly once, and sets _dispersed.
C3_FilterbankCompletes ==
    (last.op = "disperse" /\ sigtype = "FilterBankSignal"
        /\ "_dispersed" \notin pre.attrs)
        => /\ last.err = "none"
           /\ "_dispersed" \in attrs
           /\ \A ii \in Chans(Nchan) :
                 data[ii] = Append(pre.data[ii], TimeDelays(dm, Nchan)[ii])

\* C4 (as claimed): scatter_broaden with convolve = True raises
\* NotImplementedError and changes no row of data.
C4_ConvolveUnsupported ==
    (last.op = "scatter_broaden" /\ last.convolve)
        => (last.err = "NotImplementedError" /\ data = pre.data)

\* C5 (as claimed): scatter_broaden with convolve = False on a filterbank
\* signal completes without error and appends to every row ii the shift by
\* scale_tau_d(tau_d, ref_freq, freq_ii, beta).
C5_ScatterShiftApplied ==
    (last.op = "scatter_broaden" /\ ~last.convolve
        /\ sigtype = "FilterBankSignal")
        => /\ last.err = "none"
           /\ \A ii \in Chans(Nchan) :
                 LET s == ScaleTauD(Quant(last.arg[1], Rat(0)), last.arg[2],
                                    DatFreq(Nchan)[ii],
                                    <<last.arg[3], last.arg[4]>>)
                 IN  /\ s.err = "none"
                     /\ data[ii] = Append(pre.data[ii],
                                          Applied("tau", <<s.val.m>>, s.val.e))

\* C6 (as claimed): for every beta # 4, including 2 and 6, and f1 # f2, both
\* scale_tau_d calls return a value and the second returns x.
C6_RoundTripAllBeta ==
    (rt.beta # Rat(4) /\ rt.f1 # rt.f2)
        => /\ rt.stage = "out" => rt.y.err = "none"
           /\ rt.stage = "back" => (rt.z.err = "none" /\ rt.z.val = rt.x)

\* C6 (amended): for every beta outside {2, 4, 6} and f1 # f2, both
\* scale_tau_d calls return a value and the second returns x.
C6_RoundTrip ==
    (rt.beta \notin {Rat(2), Rat(4), Rat(6)} /\ rt.f1 # rt.f2)
        => /\ rt.stage = "out" => rt.y.err = "none"
           /\ rt.stage = "back" => (rt.z.err = "none" /\ rt.z.val = rt.x)

\* C6 witness: the Kolmogorov beta 11/3, two different frequencies, the value
\* moved away from x on the way out and came back to x.
C6_Witness ==
    /\ rt.stage = "back"
    /\ rt.beta = <<11, 3>>
    /\ rt.f1 # rt.f2
    /\ rt.y.val # rt.x
    /\ rt.z.err = "none"
    /\ rt.z.val = rt.x

\* C7 (as claimed): disperse on a baseband signal that was not dispersed
\* overwrites every row with its chirp-filtered samples, completes without
\* error and sets _dispersed.
C7_BasebandCompletes ==
    (last.op = "disperse" /\ sigtype = "BasebandSignal"
        /\ "_dispersed" \notin pre.attrs)
        => /\ last.err = "none"
           /\ "_dispersed" \in attrs
           /\ \A x \in Chans(Nchan) :
                 data[x] = Append(pre.data[x], Chirp(dm, x))

\* C8 (as claimed): FD_shift is never rejected; on a filterbank signal,
\* after n calls every row has been shifted n times by its FD delay, and
\* _FDshifted is set after each call.
C8_FDShiftAccumulates ==
    (last.op = "FD_shift" /\ sigtype = "FilterBankSignal")
        => /\ last.err = "none"
           /\ "_FDshifted" \in attrs
           /\ \A ii \in Chans(Nchan) :
                 FDCount(data[ii]) = ncalls["FD_shift"]

\* C9 (as claimed): disperse on a signal that is neither filterbank nor
\* baseband raises and sets neither _dispersed nor _dm.
C9_UnknownKindRejected ==
    (last.op = "disperse" /\ sigtype = "OtherSignal")
        => /\ last.err # "none"
           /\ attrs = pre.attrs
           /\ dm = pre.dm

\* C10 (as claimed): over any sequence of disperse calls every row receives
\* the dispersion shift at most once, and a disperse call that raises leaves
\* the signal fully dispersed with _dispersed set, or with no row changed.
C10_NoDoubleDispersion ==
    /\ \A ii \in Chans(Nchan) : DMCount(data[ii]) <= 1
    /\ (last.op = "disperse" /\ last.err # "none")
          => \/ data = pre.data
             \/ /\ "_dispersed" \in attrs
                /\ \A ii \in Chans(Nchan) : DMCount(data[ii]) = 1

====
